---- MODULE Spec2Model ----
(***************************************************************************)
(* SafeBackup (src/src/lib.rs): backup_file, restore_file and delete_file  *)
(* over one working directory, with sanitize_filename and within_cwd in    *)
(* front of them and log_event behind them.                                *)
(*                                                                         *)
(* Strings and file contents are sequences of bytes (naturals 0..255), so  *)
(* that len() counts bytes and the byte tests of the source are the same   *)
(* comparisons here.  Error values are the fixed part of the source's      *)
(* message.                                                                *)
(*                                                                         *)
(* Every call of the source that returns a Result through `?` is a step    *)
(* that either succeeds or fails; a failing copy or write may have put     *)
(* down some bytes first.  A call meets at most one such error: it returns *)
(* at the first, and the remove_file whose result restore_file discards    *)
(* (line 143) acts on the temp file the call has just written.  A failing  *)
(* log_event is the step that leaves the log as it is.                     *)
(*                                                                         *)
(* An open file is identified with its path: exact as long as no path is   *)
(* renamed over or removed while another call holds it open, which is the  *)
(* case in every specification below.                                      *)
(***************************************************************************)
EXTENDS Naturals, Sequences, FiniteSets

VARIABLES
    fs,       \* the working directory: path (bytes) -> [kind, data]
    call,     \* per caller: the locals of the operation in flight
    pre,      \* per caller: the directory as it was when the call started
    checked,  \* per caller: the paths within_cwd has accepted in this call
    used,     \* per caller: the paths this call has opened/created/renamed/removed
    snap,     \* per filename: the source content a successful backup_file saw
    calls,    \* number of calls started so far
    input,    \* argument of the stand-alone sanitize_filename application
    verdict,  \* its result
    shell     \* the process running main: where it is, what it printed to
              \* stderr, and its exit status once it has exited

vars == <<fs, call, pre, checked, used, snap, calls, input, verdict, shell>>

-----------------------------------------------------------------------------
(* Bytes and byte strings                                                  *)

\* "txt", "log", "md"
allowed_exts == { <<116, 120, 116>>, <<108, 111, 103>>, <<109, 100>> }

Contains(s, b) == \E i \in 1..Len(s) : s[i] = b

\* str::contains("..")
ContainsDotDot(s) == \E i \in 1..(Len(s) - 1) : s[i] = 46 /\ s[i + 1] = 46

\* u8::is_ascii_alphanumeric
is_ascii_alphanumeric(b) == b \in (48..57) \cup (65..90) \cup (97..122)

\* the byte test of the closure in sanitize_filename
AllowedByte(b) == is_ascii_alphanumeric(b) \/ b = 46 \/ b = 95 \/ b = 45

Min(a, b) == IF a < b THEN a ELSE b

MaxOf(S) == CHOOSE x \in S : \A y \in S : y <= x

MinOf(S) == CHOOSE x \in S : \A y \in S : x <= y

\* The pieces of s between '/' bytes, in order (empty pieces included).
Segments(s) ==
    LET cut    == {0} \cup {i \in 1..Len(s) : s[i] = 47} \cup {Len(s) + 1}
        starts == cut \ {Len(s) + 1}
        after(i) == MinOf({j \in cut : j > i})
        rank(i)  == Cardinality({j \in starts : j <= i})
    IN  [k \in 1..Cardinality(starts) |->
            LET b == CHOOSE i \in starts : rank(i) = k
            IN  SubSeq(s, b + 1, after(b) - 1)]

\* Path::new(s) as std::path sees it on Unix: whether it starts at the root,
\* and its components with empty and "." pieces dropped.
PathNew(s) ==
    [abs   |-> Len(s) > 0 /\ s[1] = 47,
     comps |-> SelectSeq(Segments(s), LAMBDA c : c # <<>> /\ c # <<46>>)]

NoName == <<0>>   \* Option::None of a name (no name holds a NUL byte)

\* Path::file_name: the last component, unless it is ".." or there is none.
file_name(p) ==
    IF Len(p.comps) = 0 THEN NoName
    ELSE LET l == p.comps[Len(p.comps)]
         IN  IF l = <<46, 46>> THEN NoName ELSE l

\* Path::parent, with the unwrap_or(".") of within_cwd applied: "." and the
\* empty path have the same components (none).
parent(p) ==
    IF Len(p.comps) = 0 THEN [abs |-> FALSE, comps |-> <<>>]
    ELSE [abs |-> p.abs, comps |-> SubSeq(p.comps, 1, Len(p.comps) - 1)]

\* Path::join: an absolute right-hand side replaces the left.
join(a, b) ==
    IF b.abs THEN b ELSE [abs |-> a.abs, comps |-> a.comps \o b.comps]

\* Path::starts_with: component-wise prefix.
starts_with(a, b) ==
    /\ a.abs = b.abs
    /\ Len(b.comps) <= Len(a.comps)
    /\ SubSeq(a.comps, 1, Len(b.comps)) = b.comps

\* extension without the rule for a leading '.': ".txt" has extension "txt"
extension_of_hidden(s) ==
    LET f == file_name(PathNew(s))
    IN  IF f = NoName \/ ~Contains(f, 46) THEN NoName
        ELSE LET d == MaxOf({i \in 1..Len(f) : f[i] = 46})
             IN  SubSeq(f, d + 1, Len(f))

\* Path::extension: the part of file_name after its last '.', None when there
\* is no file_name, no '.', or the only '.' is the first byte.
extension(s) ==
    LET f == file_name(PathNew(s))
    IN  IF f = NoName \/ ~Contains(f, 46) THEN NoName
        ELSE LET d == MaxOf({i \in 1..Len(f) : f[i] = 46})
             IN  IF d = 1 THEN NoName ELSE SubSeq(f, d + 1, Len(f))

-----------------------------------------------------------------------------
(* sanitize_filename                                                       *)

NameLimit == 255

\* Result<T>: err is the message of the anyhow error, cause the kind of the
\* io::Error the message was attached to by with_context ("" where the kind
\* plays no part)
Ok(v)  == [ok |-> TRUE,  val |-> v,    err |-> "", cause |-> ""]
Err(e) == [ok |-> FALSE, val |-> <<>>, err |-> e,  cause |-> ""]
ErrFrom(e, kind) == [ok |-> FALSE, val |-> <<>>, err |-> e, cause |-> kind]

\* sanitize_filename without the test for ".."
sanitize_no_traversal(s) ==
    IF Len(s) = 0 THEN Err("filename is empty")
    ELSE IF Len(s) > NameLimit THEN Err("filename too long")
    ELSE IF Contains(s, 47) \/ Contains(s, 92)
        THEN Err("path separators are not allowed")
    ELSE IF ~(\A i \in 1..Len(s) : AllowedByte(s[i]))
        THEN Err("filename contains invalid characters")
    ELSE IF extension(s) = NoName THEN Err("file must have an extension")
    ELSE IF extension(s) \notin allowed_exts
        THEN Err("only .txt, .log, or .md files are allowed in this tool")
    ELSE Ok(s)

\* sanitize_filename with the test for separators moved before the test of
\* the length
sanitize_separators_first(s) ==
    IF Len(s) = 0 THEN Err("filename is empty")
    ELSE IF Contains(s, 47) \/ Contains(s, 92)
        THEN Err("path separators are not allowed")
    ELSE IF Len(s) > NameLimit THEN Err("filename too long")
    ELSE IF ContainsDotDot(s) THEN Err("traversal tokens are not allowed")
    ELSE IF ~(\A i \in 1..Len(s) : AllowedByte(s[i]))
        THEN Err("filename contains invalid characters")
    ELSE IF extension(s) = NoName THEN Err("file must have an extension")
    ELSE IF extension(s) \notin allowed_exts
        THEN Err("only .txt, .log, or .md files are allowed in this tool")
    ELSE Ok(s)

sanitize_filename(s) ==
    IF Len(s) = 0 THEN Err("filename is empty")
    ELSE IF Len(s) > NameLimit THEN Err("filename too long")
    ELSE IF Contains(s, 47) \/ Contains(s, 92)
        THEN Err("path separators are not allowed")
    ELSE IF ContainsDotDot(s) THEN Err("traversal tokens are not allowed")
    ELSE IF ~(\A i \in 1..Len(s) : AllowedByte(s[i]))
        THEN Err("filename contains invalid characters")
    ELSE IF extension(s) = NoName THEN Err("file must have an extension")
    ELSE IF extension(s) \notin allowed_exts
        THEN Err("only .txt, .log, or .md files are allowed in this tool")
    ELSE Ok(s)

-----------------------------------------------------------------------------
(* The working directory                                                   *)

\* cwd().canonicalize(): "/wd"
base == [abs |-> TRUE, comps |-> << <<119, 100>> >>]

within_cwd(p) ==
    LET path == PathNew(p)
        par  == join(base, parent(path))
        fn   == file_name(path)
    IN  IF fn = NoName THEN Err("invalid filename")
        ELSE IF ~starts_with(join(par, PathNew(fn)), base)
            THEN Err("path escapes working directory")
        ELSE Ok(p)

\* one temp file for every restore, whatever the name: "restore.tmp"
TmpOf_shared(f) == <<114, 101, 115, 116, 111, 114, 101, 46, 116, 109, 112>>

\* filename.to_string() + ".bak" / ".tmp"
BakOf(f) == f \o <<46, 98, 97, 107>>
TmpOf(f) == f \o <<46, 116, 109, 112>>

\* cwd()?.join("logfile.txt")
logfile_path == <<108, 111, 103, 102, 105, 108, 101, 46, 116, 120, 116>>

File(d) == [kind |-> "file", data |-> d]
Dir     == [kind |-> "dir",  data |-> <<>>]

exists(f, p)  == p \in DOMAIN f
is_file(f, p) == p \in DOMAIN f /\ f[p].kind = "file"

\* the directory f with path p holding entry e
Put(f, p, e) == [q \in DOMAIN f \cup {p} |-> IF q = p THEN e ELSE f[q]]

\* fs::remove_file
remove_file(f, p) == [q \in DOMAIN f \ {p} |-> f[q]]

\* fs::rename(from, to) of a regular file: replaces `to` in one step
rename(f, from, to) ==
    [q \in (DOMAIN f \ {from}) \cup {to} |-> IF q = to THEN f[from] ELSE f[q]]

\* rename(2) refuses to put a regular file over a directory
RenameAllowed(f, from, to) ==
    is_file(f, from) /\ ~(exists(f, to) /\ f[to].kind = "dir")

Prefix(d, k) == SubSeq(d, 1, k)

\* How many bytes a failing copy or write may have put down before it failed:
\* fewer than all n, and at most MaxCut of them.
MaxCut == 1
Cuts(n) == {k \in 0..MaxCut : k < n \/ k = 0}

-----------------------------------------------------------------------------
(* log_event                                                               *)

\* Utc::now().format("%Y-%m-%d %H:%M:%S"): one representative instant
Timestamp ==
    <<50, 48, 50, 54, 45, 48, 49, 45, 48, 49, 32, 48, 48, 58, 48, 48, 58, 48, 48>>

\* "INFO"
INFO == <<73, 78, 70, 79>>

\* format!("[{}] {}: {}\n", ts, level, msg)
LogLine(level, msg) ==
    <<91>> \o Timestamp \o <<93, 32>> \o level \o <<58, 32>> \o msg \o <<10>>

\* "Backup created for ", "Restore completed for ", "Secure delete completed for "
BackupMsg(f) ==
    <<66, 97, 99, 107, 117, 112, 32, 99, 114, 101, 97, 116, 101, 100, 32,
      102, 111, 114, 32>> \o f
RestoreMsg(f) ==
    <<82, 101, 115, 116, 111, 114, 101, 32, 99, 111, 109, 112, 108, 101, 116,
      101, 100, 32, 102, 111, 114, 32>> \o f
DeleteMsg(f) ==
    <<83, 101, 99, 117, 114, 101, 32, 100, 101, 108, 101, 116, 101, 32, 99,
      111, 109, 112, 108, 101, 116, 101, 100, 32, 102, 111, 114, 32>> \o f

\* OpenOptions::new().append(true).create(true) on the log cannot open a
\* directory
LogOpens(f) == ~(exists(f, logfile_path) /\ f[logfile_path].kind = "dir")

\* the directory after log_event(level, msg) returned Ok
log_event(f, level, msg) ==
    Put(f, logfile_path,
        File((IF exists(f, logfile_path) THEN f[logfile_path].data ELSE <<>>)
             \o LogLine(level, msg)))

-----------------------------------------------------------------------------
(* Callers                                                                 *)

Procs == {1, 2}

MaxCalls == 3

Idle == [pc |-> "idle", op |-> "none", raw |-> <<>>, filename |-> <<>>,
         res |-> Err(""), len |-> 0, written |-> 0]

EmptyDir == [q \in {} |-> Dir]

Quiet == \A q \in Procs : call[q].pc = "idle"

Goto(p, l)   == call' = [call EXCEPT ![p].pc = l]
Finish(p, r) == call' = [call EXCEPT ![p].pc = "done", ![p].res = r]
Use(p, S)    == used' = [used EXCEPT ![p] = @ \cup S]

\* the path each operation hands to within_cwd (lines 84, 118, 155)
Contained(o, f) == IF o = "restore" THEN BakOf(f) ELSE f

FirstStep(o) ==
    CASE o = "backup"  -> "b_exists"
      [] o = "restore" -> "r_exists"
      [] o = "delete"  -> "d_exists"

\* Entry of an operation: sanitize_filename(filename)? and within_cwd(..)?
Enter(p, o, raw) ==
    /\ call[p].pc = "idle"
    /\ calls < MaxCalls
    /\ calls' = calls + 1
    /\ pre' = [pre EXCEPT ![p] = fs]
    /\ used' = [used EXCEPT ![p] = {}]
    /\ LET s == sanitize_filename(raw)
           c == within_cwd(Contained(o, s.val))
           started == [Idle EXCEPT !.op = o, !.raw = raw]
       IN  IF ~s.ok
             THEN /\ call' = [call EXCEPT ![p] =
                                 [started EXCEPT !.pc = "done", !.res = s]]
                  /\ checked' = [checked EXCEPT ![p] = {}]
           ELSE IF ~c.ok
             THEN /\ call' = [call EXCEPT ![p] =
                                 [started EXCEPT !.pc = "done", !.res = c,
                                                 !.filename = s.val]]
                  /\ checked' = [checked EXCEPT ![p] = {}]
           ELSE /\ call' = [call EXCEPT ![p] =
                               [started EXCEPT !.pc = FirstStep(o),
                                               !.filename = s.val]]
                /\ checked' = [checked EXCEPT ![p] = {c.val}]
    /\ UNCHANGED <<fs, snap, input, verdict>>

\* The caller takes the result; the locals are dropped.
Return(p) ==
    /\ call[p].pc = "done"
    /\ call' = [call EXCEPT ![p] = Idle]
    /\ pre' = [pre EXCEPT ![p] = EmptyDir]
    /\ checked' = [checked EXCEPT ![p] = {}]
    /\ used' = [used EXCEPT ![p] = {}]
    /\ UNCHANGED <<fs, snap, calls, input, verdict, shell>>

-----------------------------------------------------------------------------
(* backup_file                                                             *)

\* a copy that consumes what it reads: the reader's file is gone afterwards
io_copy_consuming(f, from, to) ==
    remove_file(Put(f, to, File(f[from].data)), from)

\* io::copy(&mut reader, &mut writer) run to the end: the writer's file holds
\* what the reader's file holds
io_copy(f, from, to) == Put(f, to, File(f[from].data))

\* io::copy stopped by an error after k bytes
io_copy_partial(f, from, to, k) == Put(f, to, File(Prefix(f[from].data, k)))

Backup_Exists(p) ==
    /\ call[p].pc = "b_exists"
    /\ IF ~exists(fs, call[p].filename)
         THEN Finish(p, Err("source file does not exist"))
         ELSE Goto(p, "b_isfile")
    /\ UNCHANGED <<fs, pre, checked, used, snap, calls, input, verdict, shell>>

Backup_IsFile(p) ==
    /\ call[p].pc = "b_isfile"
    /\ IF ~is_file(fs, call[p].filename)
         THEN Finish(p, Err("source is not a regular file"))
         ELSE Goto(p, "b_bak")
    /\ UNCHANGED <<fs, pre, checked, used, snap, calls, input, verdict, shell>>

\* backup_file without the test of lines 92-94
Backup_BakExists_skipped(p) ==
    /\ call[p].pc = "b_bak"
    /\ Goto(p, "b_open")
    /\ UNCHANGED <<fs, pre, checked, used, snap, calls, input, verdict, shell>>

Backup_BakExists(p) ==
    /\ call[p].pc = "b_bak"
    /\ IF exists(fs, BakOf(call[p].filename))
         THEN Finish(p, Err("backup already exists, refusing to overwrite"))
         ELSE Goto(p, "b_open")
    /\ UNCHANGED <<fs, pre, checked, used, snap, calls, input, verdict, shell>>

\* File::open(src): the open succeeds, or fails (the file is gone, or an I/O
\* error)
Backup_Open(p) ==
    /\ call[p].pc = "b_open"
    /\ \/ /\ exists(fs, call[p].filename)
          /\ Goto(p, "b_create")
          /\ Use(p, {call[p].filename})
       \/ /\ Finish(p, Err("open source"))
          /\ UNCHANGED used
    /\ UNCHANGED <<fs, pre, checked, snap, calls, input, verdict, shell>>

\* backup_file with create(true).truncate(true) in place of create_new(true)
Backup_Create_overwrites(p) ==
    /\ call[p].pc = "b_create"
    /\ \/ /\ fs' = Put(fs, BakOf(call[p].filename), File(<<>>))
          /\ Goto(p, "b_copy")
          /\ Use(p, {BakOf(call[p].filename)})
       \/ /\ Finish(p, Err("create backup"))
          /\ UNCHANGED <<fs, used>>
    /\ UNCHANGED <<pre, checked, snap, calls, input, verdict, shell>>

\* OpenOptions::new().write(true).create_new(true).open(&bak): the file is
\* created, or the open fails because the path is taken, or on an I/O error
Backup_Create(p) ==
    /\ call[p].pc = "b_create"
    /\ \/ /\ ~exists(fs, BakOf(call[p].filename))
          /\ fs' = Put(fs, BakOf(call[p].filename), File(<<>>))
          /\ Goto(p, "b_copy")
          /\ Use(p, {BakOf(call[p].filename)})
       \/ /\ exists(fs, BakOf(call[p].filename))
          /\ Finish(p, ErrFrom("create backup", "AlreadyExists"))
          /\ UNCHANGED <<fs, used>>
       \/ /\ Finish(p, Err("create backup"))
          /\ UNCHANGED <<fs, used>>
    /\ UNCHANGED <<pre, checked, snap, calls, input, verdict, shell>>

Backup_Copy(p) ==
    /\ call[p].pc = "b_copy"
    /\ is_file(fs, call[p].filename)
    /\ \/ /\ fs' = io_copy(fs, call[p].filename, BakOf(call[p].filename))
          /\ Goto(p, "b_flush")
       \/ \E k \in Cuts(Len(fs[call[p].filename].data)) :
          /\ fs' = io_copy_partial(fs, call[p].filename,
                                   BakOf(call[p].filename), k)
          /\ Finish(p, Err("copy to backup failed"))
    /\ UNCHANGED <<pre, checked, used, snap, calls, input, verdict, shell>>

Backup_Flush(p) ==
    /\ call[p].pc = "b_flush"
    /\ \/ Goto(p, "b_log")
       \/ Finish(p, Err("flush"))
    /\ UNCHANGED <<fs, pre, checked, used, snap, calls, input, verdict, shell>>

\* backup_file with log_event(..)? in place of log_event(..).ok()
Backup_Log_propagates(p) ==
    /\ call[p].pc = "b_log"
    /\ \/ /\ LogOpens(fs)
          /\ fs' = log_event(fs, INFO, BackupMsg(call[p].filename))
          /\ Finish(p, Ok(BakOf(call[p].filename)))
       \/ /\ fs' = fs
          /\ Finish(p, Err("open log file"))
    /\ UNCHANGED <<pre, checked, used, snap, calls, input, verdict, shell>>

\* log_event(..).ok(); Ok(bak.to_path_buf())
Backup_Log(p) ==
    /\ call[p].pc = "b_log"
    /\ \/ /\ LogOpens(fs)
          /\ fs' = log_event(fs, INFO, BackupMsg(call[p].filename))
       \/ fs' = fs
    /\ Finish(p, Ok(BakOf(call[p].filename)))
    /\ snap' = IF is_file(pre[p], call[p].filename)
                 THEN Put(snap, call[p].filename,
                          pre[p][call[p].filename].data)
                 ELSE snap
    /\ UNCHANGED <<pre, checked, used, calls, input, verdict, shell>>

-----------------------------------------------------------------------------
(* restore_file                                                            *)

\* the closure of with_context on a failed rename: let _ = fs::remove_file(&tmp)
rename_cleanup(f, tmp) == remove_file(f, tmp)

\* restore_file without the test of lines 120-122
Restore_Exists_skipped(p) ==
    /\ call[p].pc = "r_exists"
    /\ Goto(p, "r_open")
    /\ UNCHANGED <<fs, pre, checked, used, snap, calls, input, verdict, shell>>

Restore_Exists(p) ==
    /\ call[p].pc = "r_exists"
    /\ IF ~exists(fs, BakOf(call[p].filename))
          \/ ~is_file(fs, BakOf(call[p].filename))
         THEN Finish(p, Err("backup file does not exist"))
         ELSE Goto(p, "r_open")
    /\ UNCHANGED <<fs, pre, checked, used, snap, calls, input, verdict, shell>>

\* File::open(src_bak)
Restore_Open(p) ==
    /\ call[p].pc = "r_open"
    /\ \/ /\ exists(fs, BakOf(call[p].filename))
          /\ Goto(p, "r_create")
          /\ Use(p, {BakOf(call[p].filename)})
       \/ /\ Finish(p, Err("open backup"))
          /\ UNCHANGED used
    /\ UNCHANGED <<fs, pre, checked, snap, calls, input, verdict, shell>>

\* restore_file with create(true).truncate(true) in place of create_new(true)
Restore_Create_overwrites(p) ==
    /\ call[p].pc = "r_create"
    /\ \/ /\ fs' = Put(fs, TmpOf(call[p].filename), File(<<>>))
          /\ Goto(p, "r_copy")
          /\ Use(p, {TmpOf(call[p].filename)})
       \/ /\ Finish(p, Err("create temp"))
          /\ UNCHANGED <<fs, used>>
    /\ UNCHANGED <<pre, checked, snap, calls, input, verdict, shell>>

\* OpenOptions::new().write(true).create_new(true).open(&tmp): the file is
\* created, or the open fails because the path is taken, or on an I/O error
Restore_Create(p) ==
    /\ call[p].pc = "r_create"
    /\ \/ /\ ~exists(fs, TmpOf(call[p].filename))
          /\ fs' = Put(fs, TmpOf(call[p].filename), File(<<>>))
          /\ Goto(p, "r_copy")
          /\ Use(p, {TmpOf(call[p].filename)})
       \/ /\ exists(fs, TmpOf(call[p].filename))
          /\ Finish(p, ErrFrom("create temp", "AlreadyExists"))
          /\ UNCHANGED <<fs, used>>
       \/ /\ Finish(p, Err("create temp"))
          /\ UNCHANGED <<fs, used>>
    /\ UNCHANGED <<pre, checked, snap, calls, input, verdict, shell>>

Restore_Copy(p) ==
    /\ call[p].pc = "r_copy"
    /\ is_file(fs, BakOf(call[p].filename))
    /\ \/ /\ fs' = io_copy(fs, BakOf(call[p].filename), TmpOf(call[p].filename))
          /\ Goto(p, "r_flush")
       \/ \E k \in Cuts(Len(fs[BakOf(call[p].filename)].data)) :
          /\ fs' = io_copy_partial(fs, BakOf(call[p].filename),
                                   TmpOf(call[p].filename), k)
          /\ Finish(p, Err("copy from backup failed"))
    /\ UNCHANGED <<pre, checked, used, snap, calls, input, verdict, shell>>

Restore_Flush(p) ==
    /\ call[p].pc = "r_flush"
    /\ \/ Goto(p, "r_rename")
       \/ Finish(p, Err("flush"))
    /\ UNCHANGED <<fs, pre, checked, used, snap, calls, input, verdict, shell>>

\* fs::rename(&tmp, &filename).with_context(|| { remove tmp; .. })?
Restore_Rename(p) ==
    /\ call[p].pc = "r_rename"
    /\ \/ /\ RenameAllowed(fs, TmpOf(call[p].filename), call[p].filename)
          /\ fs' = rename(fs, TmpOf(call[p].filename), call[p].filename)
          /\ Goto(p, "r_log")
          /\ Use(p, {TmpOf(call[p].filename), call[p].filename})
       \/ /\ fs' = rename_cleanup(fs, TmpOf(call[p].filename))
          /\ Finish(p, Err("rename"))
          /\ Use(p, {TmpOf(call[p].filename)})
    /\ UNCHANGED <<pre, checked, snap, calls, input, verdict, shell>>

\* log_event(..).ok(); Ok(PathBuf::from(filename))
Restore_Log(p) ==
    /\ call[p].pc = "r_log"
    /\ \/ /\ LogOpens(fs)
          /\ fs' = log_event(fs, INFO, RestoreMsg(call[p].filename))
       \/ fs' = fs
    /\ Finish(p, Ok(call[p].filename))
    /\ UNCHANGED <<pre, checked, used, snap, calls, input, verdict, shell>>

-----------------------------------------------------------------------------
(* delete_file                                                             *)

\* vec![0u8; 8192]
ChunkSize == 8192

\* every turn writes a whole chunk
to_write_whole_chunk(len, written) == ChunkSize

\* std::cmp::min(8192u64, len - written)
to_write(len, written) == Min(ChunkSize, len - written)

\* f.write_all(&chunk[..n]) at offset `at` of a file opened for writing, not
\* truncated, not in append mode
write_zeros(f, p, at, n) ==
    LET d == f[p].data
        m == IF Len(d) > at + n THEN Len(d) ELSE at + n
    IN  Put(f, p, File([i \in 1..m |-> IF i > at /\ i <= at + n THEN 0 ELSE d[i]]))

Delete_Exists(p) ==
    /\ call[p].pc = "d_exists"
    /\ IF ~exists(fs, call[p].filename) \/ ~is_file(fs, call[p].filename)
         THEN Finish(p, Err("file does not exist"))
         ELSE Goto(p, "d_meta")
    /\ UNCHANGED <<fs, pre, checked, used, snap, calls, input, verdict, shell>>

\* fs::metadata(path)?.len()
Delete_Metadata(p) ==
    /\ call[p].pc = "d_meta"
    /\ \/ /\ is_file(fs, call[p].filename)
          /\ call' = [call EXCEPT ![p].pc = "d_open",
                                  ![p].len = Len(fs[call[p].filename].data)]
       \/ Finish(p, Err("metadata"))
    /\ UNCHANGED <<fs, pre, checked, used, snap, calls, input, verdict, shell>>

\* OpenOptions::new().write(true).open(path); let mut written = 0
Delete_Open(p) ==
    /\ call[p].pc = "d_open"
    /\ \/ /\ is_file(fs, call[p].filename)
          /\ call' = [call EXCEPT ![p].pc = "d_write", ![p].written = 0]
          /\ Use(p, {call[p].filename})
       \/ /\ Finish(p, Err("open for overwrite"))
          /\ UNCHANGED used
    /\ UNCHANGED <<fs, pre, checked, snap, calls, input, verdict, shell>>

\* one turn of: while written < len { write_all(..)?; written += to_write }
Delete_Write(p) ==
    /\ call[p].pc = "d_write"
    /\ call[p].written < call[p].len
    /\ is_file(fs, call[p].filename)
    /\ LET n == to_write(call[p].len, call[p].written)
       IN  \/ /\ fs' = write_zeros(fs, call[p].filename, call[p].written, n)
              /\ call' = [call EXCEPT ![p].written = @ + n]
           \/ \E k \in Cuts(n) :
              /\ fs' = write_zeros(fs, call[p].filename, call[p].written, k)
              /\ Finish(p, Err("write"))
    /\ UNCHANGED <<pre, checked, used, snap, calls, input, verdict, shell>>

\* the loop is over: f.flush()?
Delete_Flush(p) ==
    /\ call[p].pc = "d_write"
    /\ ~(call[p].written < call[p].len)
    /\ \/ Goto(p, "d_remove")
       \/ Finish(p, Err("flush"))
    /\ UNCHANGED <<fs, pre, checked, used, snap, calls, input, verdict, shell>>

\* fs::remove_file(path)
Delete_Remove(p) ==
    /\ call[p].pc = "d_remove"
    /\ \/ /\ exists(fs, call[p].filename)
          /\ fs' = remove_file(fs, call[p].filename)
          /\ Goto(p, "d_log")
       \/ /\ Finish(p, Err("remove"))
          /\ fs' = fs
    /\ UNCHANGED <<pre, checked, used, snap, calls, input, verdict, shell>>

\* log_event(..).ok(); Ok(())
Delete_Log(p) ==
    /\ call[p].pc = "d_log"
    /\ \/ /\ LogOpens(fs)
          /\ fs' = log_event(fs, INFO, DeleteMsg(call[p].filename))
       \/ fs' = fs
    /\ Finish(p, Ok(<<>>))
    /\ UNCHANGED <<pre, checked, used, snap, calls, input, verdict, shell>>

-----------------------------------------------------------------------------
(* The caller's own files, and the arguments it passes                     *)

Fill(n, b) == [i \in 1..n |-> b]

\* "a.txt"
NameA == <<97, 46, 116, 120, 116>>

\* the managed files the caller writes itself
Managed == {NameA}

\* "b.md"
NameB == <<98, 46, 109, 100>>

\* the names a caller passes: a file of its own, and a name that
\* sanitize_filename accepts as well, the log's own
ValidNames == {NameA, logfile_path}

\* what the caller writes: nothing, "hi", "bye"
Contents == { <<>>, <<104, 105>>, <<98, 121, 101>> }

\* files that take no turn of the overwrite loop of delete_file, one short
\* turn, one full turn, and two turns
LongContents ==
    { <<>>, <<104, 105>>, Fill(ChunkSize, 120), Fill(ChunkSize + 1, 121) }

\* what callers pass: "a.txt", "../a.txt", "a/b.txt", "..", "a..txt",
\* "a\b.txt", 253 bytes + "/a.txt" (259 bytes), and ""
RawNames ==
    Managed \cup
    { <<46, 46, 47, 97, 46, 116, 120, 116>>,
      <<97, 47, 98, 46, 116, 120, 116>>,
      <<46, 46>>,
      <<97, 46, 46, 116, 120, 116>>,
      <<97, 92, 98, 46, 116, 120, 116>>,
      Fill(NameLimit - 2, 97) \o <<47>> \o NameA,
      <<>> }

\* fs::File::create(name) and a write, by the caller between two calls
EnvWrite(n, c) ==
    /\ Quiet
    /\ ~(exists(fs, n) /\ fs[n].kind = "dir")
    /\ fs' = Put(fs, n, File(c))
    /\ UNCHANGED <<call, pre, checked, used, snap, calls, input, verdict, shell>>

\* the name is taken by a directory
EnvMkdir(n) ==
    /\ Quiet
    /\ ~exists(fs, n)
    /\ fs' = Put(fs, n, Dir)
    /\ UNCHANGED <<call, pre, checked, used, snap, calls, input, verdict, shell>>

-----------------------------------------------------------------------------
(* main: the interactive shell                                             *)

\* the process has started and is about to prompt for the file name
Launched == [pc |-> "prompt", stderr |-> "", status |-> 0]

\* the exit status of a process whose main returns: fn main() has the return
\* type (), whose termination status is success
ExitSuccess == 0

\* return from main, after eprintln!(msg) if msg is not ""
Exit(msg) == [pc |-> "exited", stderr |-> msg, status |-> ExitSuccess]

\* read_line fails for the file name or for the command: eprintln!, return
Main_ReadFails ==
    /\ shell.pc = "prompt"
    /\ shell' = Exit("Failed to read")
    /\ UNCHANGED <<fs, call, pre, checked, used, snap, calls, input, verdict>>

\* the arm _ of match command: eprintln!("Unknown command"); return
Main_Unknown ==
    /\ shell.pc = "prompt"
    /\ shell' = Exit("Unknown command")
    /\ UNCHANGED <<fs, call, pre, checked, used, snap, calls, input, verdict>>

\* the arms "backup", "restore", "delete": the call of the operation
Main_Call(o, raw) ==
    /\ shell.pc = "prompt"
    /\ Enter(1, o, raw)
    /\ shell' = [shell EXCEPT !.pc = "running"]

\* the operation has returned: println! of the success line, or
\* eprintln!("Operation failed: {}", err); then main returns
Main_Result ==
    /\ shell.pc = "running"
    /\ call[1].pc = "done"
    /\ shell' = IF call[1].res.ok THEN Exit("") ELSE Exit("Operation failed")
    /\ call' = [call EXCEPT ![1] = Idle]
    /\ pre' = [pre EXCEPT ![1] = EmptyDir]
    /\ checked' = [checked EXCEPT ![1] = {}]
    /\ used' = [used EXCEPT ![1] = {}]
    /\ UNCHANGED <<fs, snap, calls, input, verdict>>

\* the user runs the program again
Main_Launch ==
    /\ shell.pc = "exited"
    /\ calls < MaxCalls
    /\ shell' = Launched
    /\ UNCHANGED <<fs, call, pre, checked, used, snap, calls, input, verdict>>

-----------------------------------------------------------------------------
(* Specification: one caller at a time                                     *)

Pending == Err("pending")

Init ==
    /\ fs = EmptyDir
    /\ call = [p \in Procs |-> Idle]
    /\ pre = [p \in Procs |-> EmptyDir]
    /\ checked = [p \in Procs |-> {}]
    /\ used = [p \in Procs |-> {}]
    /\ snap = [q \in {} |-> <<>>]
    /\ calls = 0
    /\ input = <<>>
    /\ verdict = Pending
    /\ shell = Launched

Step(p) ==
    \/ Backup_Exists(p) \/ Backup_IsFile(p) \/ Backup_BakExists(p)
    \/ Backup_Open(p) \/ Backup_Create(p) \/ Backup_Copy(p)
    \/ Backup_Flush(p) \/ Backup_Log(p)
    \/ Restore_Exists(p) \/ Restore_Open(p) \/ Restore_Create(p)
    \/ Restore_Copy(p) \/ Restore_Flush(p) \/ Restore_Rename(p)
    \/ Restore_Log(p)
    \/ Delete_Exists(p) \/ Delete_Metadata(p) \/ Delete_Open(p)
    \/ Delete_Write(p) \/ Delete_Flush(p) \/ Delete_Remove(p)
    \/ Delete_Log(p)
    \/ Return(p)

Next ==
    \/ \E o \in {"backup", "restore", "delete"}, raw \in RawNames :
          Quiet /\ Enter(1, o, raw) /\ UNCHANGED shell
    \/ Step(1)
    \/ \E n \in Managed, c \in Contents : EnvWrite(n, c)
    \/ \E n \in Managed : EnvMkdir(n)

Spec == Init /\ [][Next]_vars

-----------------------------------------------------------------------------
(* Specification: delete_file alone, on files longer than a chunk          *)

DeleteStep(p) ==
    \/ Delete_Exists(p) \/ Delete_Metadata(p) \/ Delete_Open(p)
    \/ Delete_Write(p) \/ Delete_Flush(p) \/ Delete_Remove(p)
    \/ Delete_Log(p)
    \/ Return(p)

DeleteNext ==
    \/ \E raw \in ValidNames : Quiet /\ Enter(1, "delete", raw) /\ UNCHANGED shell
    \/ DeleteStep(1)
    \/ \E n \in Managed, c \in LongContents : EnvWrite(n, c)

DeleteSpec == Init /\ [][DeleteNext]_vars

-----------------------------------------------------------------------------
(* Specification: one caller at a time, on every valid name there is       *)

\* the caller writes its own files only; logfile.txt is written by log_event
LogNext ==
    \/ \E o \in {"backup", "restore", "delete"}, raw \in ValidNames :
          Quiet /\ Enter(1, o, raw) /\ UNCHANGED shell
    \/ Step(1)
    \/ \E c \in Contents : EnvWrite(NameA, c)

LogSpec == Init /\ [][LogNext]_vars

-----------------------------------------------------------------------------
(* Specification: two callers at once, both in backup_file or both in      *)
(* restore_file on the same name                                           *)

RaceStep(p) ==
    \/ Backup_Exists(p) \/ Backup_IsFile(p) \/ Backup_BakExists(p)
    \/ Backup_Open(p) \/ Backup_Create(p) \/ Backup_Copy(p)
    \/ Backup_Flush(p) \/ Backup_Log(p)
    \/ Restore_Exists(p) \/ Restore_Open(p) \/ Restore_Create(p)
    \/ Restore_Copy(p) \/ Restore_Flush(p) \/ Restore_Rename(p)
    \/ Restore_Log(p)
    \/ Return(p)

\* a second call starts while the first is running only if it is a call of
\* the same operation: each step reads and writes files by path, which is
\* what two calls of one operation see of each other
RaceNext ==
    \/ \E p \in Procs, o \in {"backup", "restore"} :
          /\ \A q \in Procs \ {p} : call[q].pc = "idle" \/ call[q].op = o
          /\ Enter(p, o, NameA) /\ UNCHANGED shell
    \/ \E p \in Procs : RaceStep(p)
    \/ \E c \in Contents : EnvWrite(NameA, c)

RaceSpec == Init /\ [][RaceNext]_vars

-----------------------------------------------------------------------------
(* Specification: the program run from the shell, one run after another    *)

\* what the user types as file name: "a.txt", "../a.txt", ""
TypedNames == { NameA, <<46, 46, 47>> \o NameA, <<>> }

MainStep(p) ==
    \/ Backup_Exists(p) \/ Backup_IsFile(p) \/ Backup_BakExists(p)
    \/ Backup_Open(p) \/ Backup_Create(p) \/ Backup_Copy(p)
    \/ Backup_Flush(p) \/ Backup_Log(p)
    \/ Restore_Exists(p) \/ Restore_Open(p) \/ Restore_Create(p)
    \/ Restore_Copy(p) \/ Restore_Flush(p) \/ Restore_Rename(p)
    \/ Restore_Log(p)
    \/ Delete_Exists(p) \/ Delete_Metadata(p) \/ Delete_Open(p)
    \/ Delete_Write(p) \/ Delete_Flush(p) \/ Delete_Remove(p)
    \/ Delete_Log(p)

MainNext ==
    \/ Main_ReadFails
    \/ Main_Unknown
    \/ \E o \in {"backup", "restore", "delete"}, raw \in TypedNames :
          Main_Call(o, raw)
    \/ MainStep(1)
    \/ Main_Result
    \/ Main_Launch
    \/ \E c \in Contents : shell.pc = "exited" /\ EnvWrite(NameA, c)

MainSpec == Init /\ [][MainNext]_vars

-----------------------------------------------------------------------------
(* Specification: one caller at a time, on two files of its own and on the *)
(* log                                                                     *)

\* the caller writes "hi" to a.txt and "bye" to b.md
PairNext ==
    \/ \E o \in {"backup", "restore", "delete"},
          raw \in {NameA, NameB, logfile_path} :
          Quiet /\ Enter(1, o, raw) /\ UNCHANGED shell
    \/ Step(1)
    \/ EnvWrite(NameA, <<104, 105>>)
    \/ EnvWrite(NameB, <<98, 121, 101>>)

PairSpec == Init /\ [][PairNext]_vars

-----------------------------------------------------------------------------
(* Specification: sanitize_filename applied to one string                  *)

\* the pieces raw names are put together from: "a", ".", "/", "\", "-",
\* "txt", "md", "log", U+00E9 (two bytes), and 251 times "a"
Tokens ==
    { <<97>>, <<46>>, <<47>>, <<92>>, <<45>>,
      <<116, 120, 116>>, <<109, 100>>, <<108, 111, 103>>,
      <<195, 169>>, Fill(NameLimit - 4, 97) }

MaxTokens == 4

RECURSIVE Concats(_)
Concats(n) ==
    IF n = 0 THEN { <<>> }
    ELSE LET shorter == Concats(n - 1)
         IN  shorter \cup {t \o s : t \in Tokens, s \in shorter}

RawInputs == Concats(MaxTokens)

SanInit ==
    /\ fs = EmptyDir
    /\ call = [p \in Procs |-> Idle]
    /\ pre = [p \in Procs |-> EmptyDir]
    /\ checked = [p \in Procs |-> {}]
    /\ used = [p \in Procs |-> {}]
    /\ snap = [q \in {} |-> <<>>]
    /\ calls = 0
    /\ input \in RawInputs
    /\ verdict = Pending
    /\ shell = Launched

Validate ==
    /\ verdict = Pending
    /\ verdict' = sanitize_filename(input)
    /\ UNCHANGED <<fs, call, pre, checked, used, snap, calls, input, shell>>

SanSpec == SanInit /\ [][Validate]_vars

-----------------------------------------------------------------------------
(* Properties                                                              *)

\* the raw name holds '/', '\' or ".."
Unsafe(s) == Contains(s, 47) \/ Contains(s, 92) \/ ContainsDotDot(s)

SeparatorOrTraversal ==
    { "path separators are not allowed", "traversal tokens are not allowed" }

\* path x is the same thing (absent, or the same entry) in directories f and g
Same(f, g, x) ==
    /\ exists(f, x) <=> exists(g, x)
    /\ exists(f, x) => f[x] = g[x]

HasSuffix(s, t) ==
    Len(s) >= Len(t) /\ SubSeq(s, Len(s) - Len(t) + 1, Len(s)) = t

\* C1 as claimed: a call of backup_file, restore_file or delete_file whose raw
\* name holds '/', '\' or ".." has returned an error with the separator or the
\* traversal reason, and the directory (log included) is as it was.
C1_UnsafeNameRejectedBySeparatorOrTraversal ==
    \A p \in Procs :
        (call[p].op # "none" /\ Unsafe(call[p].raw)) =>
            /\ call[p].pc = "done"
            /\ ~call[p].res.ok
            /\ call[p].res.err \in SeparatorOrTraversal
            /\ fs = pre[p]

\* C1 amended: such a call has returned an invalid-name error (the separator or
\* traversal reason for a name of at most 255 bytes, the too-long reason for a
\* longer one), and the directory (log included) is as it was.
C1_UnsafeNameRejected ==
    \A p \in Procs :
        (call[p].op # "none" /\ Unsafe(call[p].raw)) =>
            /\ call[p].pc = "done"
            /\ ~call[p].res.ok
            /\ IF Len(call[p].raw) > 255
                 THEN call[p].res.err = "filename too long"
                 ELSE call[p].res.err \in SeparatorOrTraversal
            /\ fs = pre[p]

\* C1's case: delete_file("a..txt") has been refused while a.txt and its backup
\* are on disk.
C1_Witness ==
    \E p \in Procs :
        /\ call[p].pc = "done"
        /\ call[p].op = "delete"
        /\ call[p].raw = <<97, 46, 46, 116, 120, 116>>
        /\ call[p].res.err = "traversal tokens are not allowed"
        /\ is_file(fs, NameA) /\ is_file(fs, BakOf(NameA))

\* C10: a string sanitize_filename accepts is returned as it is, is non-empty
\* and at most 255 bytes long, holds only ASCII letters, digits, '.', '_' and
\* '-', holds no "..", ends in "." and exactly one of txt, log, md, and has at
\* least one byte in front of that; and a string of more than 255 bytes, or
\* one that ends in none of ".txt", ".log", ".md", is rejected.
C10_AcceptedNamesAreFilenames ==
    LET dotted == {<<46>> \o e : e \in { <<116, 120, 116>>, <<108, 111, 103>>,
                                        <<109, 100>> }}
        ends   == {d \in dotted : HasSuffix(input, d)}
    IN  /\ verdict.ok =>
            /\ verdict.val = input
            /\ Len(input) > 0 /\ Len(input) <= 255
            /\ \A i \in 1..Len(input) :
                  input[i] \in (48..57) \cup (65..90) \cup (97..122)
                               \cup {46, 95, 45}
            /\ \A i \in 1..(Len(input) - 1) :
                  ~(input[i] = 46 /\ input[i + 1] = 46)
            /\ Cardinality(ends) = 1
            /\ input \notin dotted
        /\ (verdict # Pending /\ (Len(input) > 255 \/ ends = {})) => ~verdict.ok

\* C10's case: a name of exactly 255 bytes, 251 letters and ".txt", is accepted.
C10_Witness ==
    /\ verdict.ok
    /\ Len(input) = 255
    /\ HasSuffix(input, <<46, 116, 120, 116>>)


\* C2: when restore_file(F) has succeeded and an earlier backup_file(F) had
\* succeeded on F holding content c, F is a regular file holding exactly c,
\* whatever the caller wrote to F in between.
C2_BackupThenRestoreGivesBack ==
    \A p \in Procs :
        (/\ call[p].op = "restore" /\ call[p].pc = "done" /\ call[p].res.ok
         /\ call[p].filename \in DOMAIN snap) =>
            /\ is_file(fs, call[p].filename)
            /\ fs[call[p].filename].data = snap[call[p].filename]

\* C2's case: the restore has succeeded on a file the caller had overwritten
\* with something else after the backup.
C2_Witness ==
    \E p \in Procs :
        /\ call[p].op = "restore" /\ call[p].pc = "done" /\ call[p].res.ok
        /\ call[p].filename \in DOMAIN snap
        /\ is_file(pre[p], call[p].filename)
        /\ pre[p][call[p].filename].data # snap[call[p].filename]
        /\ Len(snap[call[p].filename]) > 0
        /\ fs[call[p].filename].data = snap[call[p].filename]

AlreadyExists == "backup already exists, refusing to overwrite"

\* C3 as claimed: a backup_file(F) called while F.bak exists has failed with
\* the already-exists error when it returns, and F.bak is as it was.
C3_BackupOverExistingBakIsAlreadyExists ==
    \A p \in Procs :
        (/\ call[p].op = "backup" /\ call[p].pc # "idle"
         /\ call[p].filename # <<>>
         /\ exists(pre[p], BakOf(call[p].filename))) =>
            /\ Same(fs, pre[p], BakOf(call[p].filename))
            /\ call[p].pc = "done" =>
                  ~call[p].res.ok /\ call[p].res.err = AlreadyExists

\* C3 amended: a backup_file(F) called while F.bak exists fails, with the
\* already-exists error when F is an existing regular file (the tests of the
\* source come first: a missing or non-regular F is reported instead), and at
\* every step of the call F.bak is as it was.
C3_BackupOverExistingBakFails ==
    \A p \in Procs :
        (/\ call[p].op = "backup" /\ call[p].pc # "idle"
         /\ call[p].filename # <<>>
         /\ exists(pre[p], BakOf(call[p].filename))) =>
            /\ Same(fs, pre[p], BakOf(call[p].filename))
            /\ call[p].pc = "done" =>
                  /\ ~call[p].res.ok
                  /\ is_file(pre[p], call[p].filename) =>
                        call[p].res.err = AlreadyExists

\* C3's case: the second backup_file(F) after a successful first one has
\* failed with the already-exists error.
C3_Witness ==
    \E p \in Procs :
        /\ call[p].op = "backup" /\ call[p].pc = "done"
        /\ call[p].filename \in DOMAIN snap
        /\ exists(pre[p], BakOf(call[p].filename))
        /\ is_file(pre[p], call[p].filename)
        /\ call[p].res.err = AlreadyExists

\* C4: when backup_file(F) has succeeded, F was a regular file and F.bak did
\* not exist at the call, the result is the path F.bak, F.bak is a regular
\* file with the content F had, and F is as it was.
C4_BackupCopiesSource ==
    \A p \in Procs :
        (call[p].op = "backup" /\ call[p].pc = "done" /\ call[p].res.ok) =>
            /\ is_file(pre[p], call[p].filename)
            /\ ~exists(pre[p], BakOf(call[p].filename))
            /\ call[p].res.val = call[p].filename \o <<46, 98, 97, 107>>
            /\ is_file(fs, call[p].res.val)
            /\ fs[call[p].res.val].data = pre[p][call[p].filename].data
            /\ Same(fs, pre[p], call[p].filename)

\* C4's case: a successful backup of a non-empty file.
C4_Witness ==
    \E p \in Procs :
        /\ call[p].op = "backup" /\ call[p].pc = "done" /\ call[p].res.ok
        /\ Len(pre[p][call[p].filename].data) > 0

\* C5: in a delete_file(F) on a regular file of N bytes, while the loop runs
\* the file keeps its length N with its first `written` bytes zero and the
\* others as they were; when the removal is about to run the file is N zero
\* bytes; and once the removal has run (and when the call has succeeded) there
\* is no F.
C5_DeleteOverwritesThenRemoves ==
    \A p \in Procs :
        (call[p].op = "delete" /\ is_file(pre[p], call[p].filename)) =>
            LET F   == call[p].filename
                old == pre[p][F].data
            IN  /\ call[p].pc = "d_write" =>
                      /\ is_file(fs, F)
                      /\ Len(fs[F].data) = Len(old)
                      /\ call[p].written <= Len(old)
                      /\ \A i \in 1..Len(old) :
                            fs[F].data[i] =
                                IF i <= call[p].written THEN 0 ELSE old[i]
                /\ call[p].pc = "d_remove" =>
                      /\ is_file(fs, F)
                      /\ Len(fs[F].data) = Len(old)
                      /\ \A i \in 1..Len(old) : fs[F].data[i] = 0
                /\ (call[p].pc = "d_log"
                    \/ (call[p].pc = "done" /\ call[p].res.ok)) =>
                      ~exists(fs, F)

\* C5's case: a file of 8193 bytes (one chunk and a byte) is all zero, and
\* still 8193 bytes, when it is about to be removed.
C5_Witness ==
    \E p \in Procs :
        /\ call[p].op = "delete" /\ call[p].pc = "d_remove"
        /\ Len(pre[p][call[p].filename].data) = 8193
        /\ \E i \in 1..8193 : pre[p][call[p].filename].data[i] # 0
        /\ fs[call[p].filename].data = [i \in 1..8193 |-> 0]

NoBackup == "backup file does not exist"

\* C6: a restore_file(F) on a valid F called while no F.bak exists changes
\* nothing in the directory (no F.tmp appears, F stays as it is) and returns
\* the not-found error straight from its first test.
C6_RestoreWithoutBackupIsNotFound ==
    \A p \in Procs :
        (/\ call[p].op = "restore" /\ call[p].pc # "idle"
         /\ call[p].filename # <<>>
         /\ ~exists(pre[p], BakOf(call[p].filename))) =>
            /\ fs = pre[p]
            /\ call[p].pc \in {"r_exists", "done"}
            /\ call[p].pc = "done" =>
                  ~call[p].res.ok /\ call[p].res.err = NoBackup

\* C6's case: restore_file(F) has failed with not-found while F itself exists.
C6_Witness ==
    \E p \in Procs :
        /\ call[p].op = "restore" /\ call[p].pc = "done"
        /\ call[p].res.err = NoBackup
        /\ is_file(fs, call[p].filename)
        /\ ~exists(fs, TmpOf(call[p].filename))

\* C7 as claimed: when a restore_file(F) has returned there is no F.tmp, and
\* between calls no managed file has a .tmp beside it.
C7_NoTempAfterRestoreReturns ==
    /\ \A p \in Procs :
          (call[p].op = "restore" /\ call[p].pc = "done") =>
              ~exists(fs, TmpOf(call[p].filename))
    /\ Quiet => \A n \in Managed : ~exists(fs, TmpOf(n))

\* C8: at every step of a restore_file(F), F is what it was when the call
\* started or a regular file with the whole content of F.bak; and when the
\* call has returned the rename error, F.tmp is gone and F is what it was.
C8_RestoreNeverHalfWrites ==
    \A p \in Procs :
        (/\ call[p].op = "restore" /\ call[p].pc # "idle"
         /\ call[p].filename # <<>>) =>
            LET F == call[p].filename
            IN  /\ \/ Same(fs, pre[p], F)
                   \/ /\ is_file(fs, F) /\ is_file(fs, BakOf(F))
                      /\ fs[F].data = fs[BakOf(F)].data
                /\ (call[p].pc = "done" /\ call[p].res.err = "rename") =>
                      /\ ~exists(fs, TmpOf(F))
                      /\ Same(fs, pre[p], F)

\* C8's case: the rename has failed on an F whose content differs from the
\* backup's; the call has returned the rename error.
C8_Witness ==
    \E p \in Procs :
        /\ call[p].op = "restore" /\ call[p].pc = "done"
        /\ call[p].res.err = "rename"
        /\ is_file(fs, call[p].filename)
        /\ fs[call[p].filename].data # fs[BakOf(call[p].filename)].data
        /\ ~exists(fs, TmpOf(call[p].filename))

\* C9 as claimed: every path a call has opened, created, renamed or removed is
\* one that within_cwd has accepted earlier in the same call.
C9_ContainmentBeforeUse ==
    \A p \in Procs : used[p] \subseteq checked[p]

-----------------------------------------------------------------------------
(* C11                                                                     *)

IsPrefix(s, t) == Len(s) <= Len(t) /\ \A i \in 1..Len(s) : s[i] = t[i]

\* C11 as claimed: logfile.txt is append-only.  No step of a backup, restore
\* or delete call, whatever valid name it was given, removes the log file or
\* replaces it: the bytes the log held before the step are still there, in
\* order, at the start of the log after the step.
C11_LogIsAppendOnly ==
    [][is_file(fs, logfile_path) =>
          /\ is_file(fs', logfile_path)
          /\ IsPrefix(fs[logfile_path].data, fs'[logfile_path].data)]_vars

-----------------------------------------------------------------------------
(* C12                                                                     *)

LogPcs == {"b_log", "r_log", "d_log"}

\* the last filesystem step of each operation: flush of the backup, rename of
\* the temp file, removal of the file
FinalPcs == {"b_flush", "r_rename", "d_remove"}

\* the step has added one line of this call to the end of the log
Appended(p) ==
    \E line \in { LogLine(INFO, BackupMsg(call[p].filename)),
                  LogLine(INFO, RestoreMsg(call[p].filename)),
                  LogLine(INFO, DeleteMsg(call[p].filename)) } :
        /\ is_file(fs', logfile_path)
        /\ fs'[logfile_path].data =
              (IF is_file(fs, logfile_path) THEN fs[logfile_path].data
                                            ELSE <<>>) \o line

\* what each operation returns when its filesystem steps have succeeded
Expected(p) ==
    CASE call[p].op = "backup" -> Ok(BakOf(call[p].filename))
      [] call[p].op = "restore" -> Ok(call[p].filename)
      [] OTHER -> Ok(<<>>)

\* C12: a failing log append never changes the outcome of an operation.  The
\* step that logs is taken only after the last filesystem step has succeeded;
\* whether log_event then succeeds or fails, the call returns the same success
\* value and every file other than the log is left as it was.  No other step
\* of a call adds a line to the log, so a call that fails has logged nothing.
C12_LogFailureChangesNothing ==
    [][\A p \in Procs :
          call'[p] # call[p] =>
            /\ call[p].pc \in LogPcs =>
                  /\ call'[p].pc = "done"
                  /\ call'[p].res = Expected(p)
                  /\ \A x \in (DOMAIN fs \cup DOMAIN fs') \ {logfile_path} :
                        Same(fs', fs, x)
                  /\ fs' = fs \/ Appended(p)
            /\ (call'[p].pc \in LogPcs /\ call[p].pc \notin LogPcs) =>
                  call[p].pc \in FinalPcs
            /\ call[p].pc \notin LogPcs =>
                  /\ ~Appended(p)
                  /\ call'[p].pc = "done" => ~call'[p].res.ok]_vars

\* C12's case: a delete whose every filesystem step succeeded has returned Ok
\* with the file gone, and the log is as it was before the call: the append
\* failed.
C12_Witness ==
    \E p \in Procs :
        /\ call[p].op = "delete" /\ call[p].pc = "done" /\ call[p].res.ok
        /\ call[p].filename = NameA
        /\ ~exists(fs, NameA)
        /\ Same(fs, pre[p], logfile_path)

-----------------------------------------------------------------------------
(* C13                                                                     *)

\* p and q are both inside backup_file(F), and F.bak was absent when each of
\* them started
BackupRace(p, q) ==
    /\ p # q
    /\ call[p].op = "backup" /\ call[q].op = "backup"
    /\ call[p].pc \notin {"idle"} /\ call[q].pc \notin {"idle"}
    /\ call[p].filename = NameA /\ call[q].filename = NameA
    /\ ~exists(pre[p], BakOf(NameA)) /\ ~exists(pre[q], BakOf(NameA))

\* an error of the operating system that the state of the files does not
\* account for
IoError(r) ==
    /\ ~r.ok
    /\ r.cause = ""
    /\ r.err \in {"open source", "create backup", "copy to backup failed",
                  "flush"}

\* C13: of two concurrent backup(F) calls started with no F.bak, at most one
\* succeeds, under every interleaving.  Only one of them ever creates or
\* writes F.bak; when one has succeeded it is that one, and the other, unless
\* an I/O error stopped it earlier, fails with already-exists: at the
\* existence test (lib.rs:92-94) or, having passed it, at the exclusive
\* creation (lib.rs:101-105).
C13_OneBackupWins ==
    \A p, q \in Procs :
        BackupRace(p, q) =>
            /\ ~(BakOf(NameA) \in used[p] /\ BakOf(NameA) \in used[q])
            /\ (call[p].pc = "done" /\ call[p].res.ok) =>
                  /\ BakOf(NameA) \in used[p]
                  /\ call[q].pc \in {"b_exists", "b_isfile", "b_bak",
                                     "b_open", "b_create", "done"}
                  /\ call[q].pc = "done" =>
                        \/ call[q].res = Err(AlreadyExists)
                        \/ call[q].res =
                              ErrFrom("create backup", "AlreadyExists")
                        \/ IoError(call[q].res)

\* C13's case: both calls passed the existence test before either created
\* F.bak; one has returned Ok, the other has lost at create_new.
C13_Witness ==
    \E p, q \in Procs :
        /\ BackupRace(p, q)
        /\ call[p].pc = "done" /\ call[p].res.ok
        /\ call[q].pc = "done"
        /\ call[q].res = ErrFrom("create backup", "AlreadyExists")
        /\ is_file(fs, BakOf(NameA))
        /\ fs[BakOf(NameA)].data = fs[NameA].data
        /\ fs[NameA].data # <<>>

-----------------------------------------------------------------------------
(* C14                                                                     *)

\* C14 as claimed: when an operation fails, or the command is unknown, the
\* shell prints the error and the process exits with a non-successful status.
C14_FailureExitsNonZero ==
    (/\ shell.pc = "exited"
     /\ shell.stderr \in {"Operation failed", "Unknown command"}) =>
        shell.status # ExitSuccess

-----------------------------------------------------------------------------
(* C15                                                                     *)

\* p is inside restore_file(F) between its create_new of F.tmp and the end of
\* its rename: the steps that write, rename or remove F.tmp
HoldsTmp(p) ==
    /\ call[p].op = "restore"
    /\ call[p].filename = NameA
    /\ call[p].pc \in {"r_copy", "r_flush", "r_rename"}

\* C15: F.tmp belongs to the restore call that created it.  A call that finds
\* F.tmp present fails at create_new and leaves every file as it is.  A step
\* of a call changes F.tmp only by creating it where there was none, or when
\* the call is past its own create_new; and while one call is there, its file
\* is in place and no other call is there too.  So each call writes, renames
\* and removes only the F.tmp it created itself.
C15_TmpIsOwnedByItsCreator ==
    /\ [](\A p \in Procs :
            HoldsTmp(p) =>
              /\ exists(fs, TmpOf(NameA))
              /\ TmpOf(NameA) \in used[p]
              /\ \A q \in Procs \ {p} : ~HoldsTmp(q))
    /\ [][\A q \in Procs :
            (call'[q] # call[q] /\ call[q].op = "restore"
             /\ call[q].filename = NameA) =>
              /\ (call[q].pc = "r_create" /\ exists(fs, TmpOf(NameA))) =>
                    /\ fs' = fs
                    /\ call'[q].pc = "done"
                    /\ call'[q].res.err = "create temp"
              /\ ~Same(fs', fs, TmpOf(NameA)) =>
                    \/ call[q].pc = "r_create" /\ ~exists(fs, TmpOf(NameA))
                    \/ HoldsTmp(q)]_vars

\* C15's case: one restore call has created F.tmp and is about to rename it;
\* the other call found F.tmp present and has failed at create_new.
C15_Witness ==
    \E p, q \in Procs :
        /\ p # q
        /\ HoldsTmp(p) /\ call[p].pc = "r_rename"
        /\ call[q].op = "restore" /\ call[q].pc = "done"
        /\ call[q].res = ErrFrom("create temp", "AlreadyExists")
        /\ ~exists(pre[q], TmpOf(NameA))
        /\ fs[TmpOf(NameA)].data = fs[BakOf(NameA)].data
        /\ fs[TmpOf(NameA)].data # <<>>

-----------------------------------------------------------------------------
(* C16                                                                     *)

\* the seven rules, each stated on the bytes of the name alone: which of them
\* the name s violates
Violates(s) ==
    LET lastdot == MaxOf({0} \cup {i \in 1..Len(s) : s[i] = 46})
    IN  << (* 1 *) s = <<>>,
           (* 2 *) Len(s) > 255,
           (* 3 *) \E i \in 1..Len(s) : s[i] \in {47, 92},
           (* 4 *) \E i \in 1..Len(s) : i < Len(s) /\ s[i] = 46 /\ s[i + 1] = 46,
           (* 5 *) \E i \in 1..Len(s) :
                      s[i] \notin (48..57) \cup (65..90) \cup (97..122)
                                  \cup {46, 95, 45},
           (* 6 *) lastdot <= 1,
           (* 7 *) SubSeq(s, lastdot + 1, Len(s)) \notin
                      { <<116, 120, 116>>, <<108, 111, 103>>, <<109, 100>> } >>

\* the reason reported for each rule
Reasons ==
    << "filename is empty",
       "filename too long",
       "path separators are not allowed",
       "traversal tokens are not allowed",
       "filename contains invalid characters",
       "file must have an extension",
       "only .txt, .log, or .md files are allowed in this tool" >>

\* C16: sanitize_filename applies its checks in the order (1) empty, (2) longer
\* than 255 bytes, (3) '/' or '\', (4) "..", (5) a byte outside [A-Za-z0-9._-],
\* (6) no extension, (7) extension not txt, log or md.  The name is accepted
\* when it violates none; otherwise the reason reported is that of the first
\* rule, in this order, that the name violates.
C16_FirstViolatedRuleIsReported ==
    verdict # Pending =>
        LET v == Violates(input)
            broken == {k \in 1..7 : v[k]}
        IN  IF broken = {} THEN verdict = Ok(input)
            ELSE verdict = Err(Reasons[MinOf(broken)])

\* C16's case: a name of more than 255 bytes that also holds a separator and a
\* byte outside the allowed set has been rejected as too long.
C16_Witness ==
    /\ verdict = Err("filename too long")
    /\ Violates(input)[3]
    /\ Violates(input)[5]
    /\ ~Violates(input)[4]

-----------------------------------------------------------------------------
(* C17                                                                     *)

\* p has returned an error from delete_file(F), where F was a regular file
\* when the call started
DeleteFailed(p) ==
    /\ call[p].op = "delete" /\ call[p].pc = "done" /\ ~call[p].res.ok
    /\ call[p].filename # <<>>
    /\ is_file(pre[p], call[p].filename)

\* d is orig with its first k bytes replaced by zeros
ZeroedTo(d, orig, k) ==
    /\ Len(d) = Len(orig)
    /\ \A i \in 1..Len(d) : d[i] = IF i <= k THEN 0 ELSE orig[i]

\* C17 as claimed: a delete(F) that fails before the removal completes leaves
\* the old state intact: F still exists and holds its original content.
C17_FailedDeleteLeavesContent ==
    \A p \in Procs :
        DeleteFailed(p) =>
            /\ is_file(fs, call[p].filename)
            /\ fs[call[p].filename].data = pre[p][call[p].filename].data

\* C17, amended: a delete(F) that fails before the removal completes leaves
\* F in place as a regular file of its original length.  Its content is the
\* original one only when the failure came before the first write; after a
\* failed chunk write the bytes written so far are zeros and the rest is
\* original; after a failed flush or a failed removal every byte is zero.
C17_FailedDeleteKeepsFileZeroedSoFar ==
    \A p \in Procs :
        DeleteFailed(p) =>
            LET F == call[p].filename
                orig == pre[p][F].data
                e == call[p].res.err
            IN  /\ is_file(fs, F)
                /\ e \in {"metadata", "open for overwrite"} =>
                      fs[F].data = orig
                /\ e = "write" =>
                      \E k \in call[p].written..Len(orig) :
                          /\ k < call[p].written + ChunkSize
                          /\ ZeroedTo(fs[F].data, orig, k)
                /\ e \in {"flush", "remove"} =>
                      ZeroedTo(fs[F].data, orig, Len(orig))
                /\ e \in {"metadata", "open for overwrite", "write", "flush",
                          "remove"}

\* C17's case: delete_file on a file of 8193 bytes has failed in the second
\* turn of its loop; the first 8192 bytes are zeros, the last byte is still
\* the original one.
C17_Witness ==
    \E p \in Procs :
        /\ DeleteFailed(p)
        /\ call[p].res.err = "write"
        /\ call[p].written = ChunkSize
        /\ call[p].len = ChunkSize + 1
        /\ fs[call[p].filename].data[1] = 0
        /\ fs[call[p].filename].data[ChunkSize] = 0
        /\ fs[call[p].filename].data[ChunkSize + 1] = 121

-----------------------------------------------------------------------------
(* C18                                                                     *)

\* C18 as claimed: when backup(F) has returned, F is unchanged; a call that
\* failed has left no F.bak of its own behind; and an F.bak that was not
\* there before the call holds a complete copy of F.
C18_NoPartialBackupRemains ==
    \A p \in Procs :
        (/\ call[p].op = "backup" /\ call[p].pc = "done"
         /\ call[p].filename # <<>>
         /\ is_file(pre[p], call[p].filename)
         /\ ~exists(pre[p], BakOf(call[p].filename))) =>
            LET F == call[p].filename
            IN  /\ Same(fs, pre[p], F)
                /\ ~call[p].res.ok => ~exists(fs, BakOf(F))
                /\ exists(fs, BakOf(F)) =>
                      /\ is_file(fs, BakOf(F))
                      /\ fs[BakOf(F)].data = fs[F].data

-----------------------------------------------------------------------------
(* C19                                                                     *)

\* at every step of a restore(F) or delete(F) call, F.bak is as it was when
\* the call started
BakUntouched ==
    \A p \in Procs :
        (/\ call[p].op \in {"restore", "delete"} /\ call[p].pc # "idle"
         /\ call[p].filename # <<>>) =>
            Same(fs, pre[p], BakOf(call[p].filename))

\* once a backup(F) has succeeded, F.bak is a regular file holding the content
\* that backup copied, and each restore(F) installs exactly that content
BakKeepsItsContent ==
    /\ \A F \in DOMAIN snap :
          /\ is_file(fs, BakOf(F))
          /\ fs[BakOf(F)].data = snap[F]
    /\ \A p \in Procs :
          (/\ call[p].op = "restore" /\ call[p].pc = "r_log"
           /\ call[p].filename \in DOMAIN snap) =>
              /\ is_file(fs, call[p].filename)
              /\ fs[call[p].filename].data = snap[call[p].filename]

\* C19 as claimed: restore(F) and delete(F) never remove or modify F.bak;
\* after any number of them F.bak still holds what the backup wrote, each
\* restore installs that content again, and a further backup(F) fails with
\* the already-exists error.
C19_BakStaysAndBackupIsAlreadyExists ==
    /\ BakUntouched
    /\ BakKeepsItsContent
    /\ \A p \in Procs :
          (/\ call[p].op = "backup" /\ call[p].pc = "done"
           /\ call[p].filename \in DOMAIN snap
           /\ is_file(pre[p], BakOf(call[p].filename))) =>
              call[p].res = Err(AlreadyExists)

\* C19, amended: restore(F) and delete(F) never remove or modify F.bak; after
\* any number of them F.bak still holds what the backup wrote, each restore
\* installs that content again, and a further backup(F) fails and leaves F.bak
\* as it is: with the already-exists error while F is a regular file, with
\* the error about the source otherwise (after a delete of F).
C19_BakStaysAndBackupKeepsFailing ==
    /\ BakUntouched
    /\ BakKeepsItsContent
    /\ \A p \in Procs :
          (/\ call[p].op = "backup" /\ call[p].pc = "done"
           /\ call[p].filename \in DOMAIN snap
           /\ is_file(pre[p], BakOf(call[p].filename))) =>
              /\ ~call[p].res.ok
              /\ Same(fs, pre[p], BakOf(call[p].filename))
              /\ IF is_file(pre[p], call[p].filename)
                   THEN call[p].res = Err(AlreadyExists)
                   ELSE call[p].res.err \in {"source file does not exist",
                                             "source is not a regular file"}

\* C19's case: after a successful backup(F) and a successful delete(F), F is
\* gone, F.bak still holds what the backup wrote, and a further backup(F) has
\* failed.
C19_Witness ==
    \E p \in Procs :
        /\ call[p].op = "backup" /\ call[p].pc = "done" /\ ~call[p].res.ok
        /\ call[p].filename = NameA
        /\ NameA \in DOMAIN snap
        /\ ~exists(fs, NameA)
        /\ is_file(fs, BakOf(NameA))
        /\ fs[BakOf(NameA)].data = snap[NameA]
        /\ snap[NameA] # <<>>

-----------------------------------------------------------------------------
(* C20                                                                     *)

\* ".bak", ".tmp"
DotBak == <<46, 98, 97, 107>>
DotTmp == <<46, 116, 109, 112>>

\* the files an operation on F may touch: F, F.bak, F.tmp and the log
Own(F) == {F, F \o DotBak, F \o DotTmp, logfile_path}

\* C20: at every step of an operation called with the valid Filename F, every
\* file other than F, F.bak, F.tmp and logfile.txt is as it was when the call
\* started: not created, modified, renamed or removed.  F ends neither in .bak
\* nor in .tmp, so for every other name G of the caller (not the log's), G,
\* G.bak and G.tmp are among the files left as they were.
C20_OnlyOwnFilesAreTouched ==
    \A p \in Procs :
        (call[p].pc # "idle" /\ call[p].filename # <<>>) =>
            LET F == call[p].filename
            IN  /\ \A x \in (DOMAIN fs \cup DOMAIN pre[p]) \ Own(F) :
                      Same(fs, pre[p], x)
                /\ ~HasSuffix(F, DotBak) /\ ~HasSuffix(F, DotTmp)
                /\ \A G \in {NameA, NameB} \ {F} :
                      /\ Own(G) \cap Own(F) = {logfile_path}
                      /\ Same(fs, pre[p], G)
                      /\ Same(fs, pre[p], G \o DotBak)
                      /\ Same(fs, pre[p], G \o DotTmp)

\* C20's case: delete(a.txt) has succeeded, a.txt is gone and the log has a
\* new line, while b.md and b.md.bak are on disk with the content they had.
C20_Witness ==
    \E p \in Procs :
        /\ call[p].op = "delete" /\ call[p].pc = "done" /\ call[p].res.ok
        /\ call[p].filename = NameA
        /\ is_file(pre[p], NameA) /\ ~exists(fs, NameA)
        /\ ~Same(fs, pre[p], logfile_path)
        /\ is_file(fs, NameB)
        /\ is_file(fs, NameB \o DotBak)
        /\ fs[NameB \o DotBak].data = <<98, 121, 101>>

====
